---------------------------- MODULE Spec2Model ----------------------------
(***************************************************************************)
(* Model of lab2.ipynb: the homogeneous and the inhomogeneous Poisson      *)
(* arrival generators, the exponential random variable and the chi-square  *)
(* goodness-of-fit test on the inter-arrival gaps, and the single-server   *)
(* queue simulate_mss.                                                     *)
(*                                                                         *)
(* Reals are fixed-point integers: a time, a gap, a sample or a statistic x*)
(* is held as the integer x * Scale.  A Python float that may be infinite  *)
(* or NaN is a record [k |-> "fin" | "inf" | "ninf" | "nan", v |-> Int].   *)
(* A uniform draw is a numerator u in 0 .. UDen-1 and stands for u / UDen, *)
(* a point of [0, 1).                                                      *)
(***************************************************************************)
EXTENDS Integers, Sequences, FiniteSets

VARIABLES
    op,        \* the call being run: "hpp", "ipp", "erv", "chi2_test" or
               \* "simulate_mss"
    lambda_,   \* self.lambda_ of the object under test (a plain number)
    lambda_t,  \* self.lambda_t, the rate function of the inhomogeneous process
    t,         \* argument t of generate_series / chi2_test: the horizon T
    n,         \* argument n of RandomVariable.generate_series
    pc,        \* position in the code
    err,       \* the exception that ended the call, "" when none
    t_,        \* local t_ of generate_series: the clock
    s,         \* local s of generate_series: the list of arrivals
    u,         \* the last draw u (u1 in the inhomogeneous loop), -1 before it
    u2,        \* the last draw u2 of the inhomogeneous loop, -1 when not drawn
    draws,     \* every u / u1 drawn by the running loop, oldest first
    xs,        \* the list built by RandomVariable.generate_series
    intervals, \* chi2_test: inc[1:] - inc[:-1]
    b,         \* chi2_test: the bin edges [E |-> numerators, D |-> denominator]
    c,         \* chi2_test: the per-bin counts
    chi2,      \* chi2_test: the statistic returned by chi2_exp
    df,        \* chi2_test: the degrees of freedom returned by chi2_exp
    chi2_crit, \* chi2_test: the critical value
    H0,        \* chi2_test: the decision, "" before it is taken
    erv_lambda,   \* simulate_mss: self.lambda_ of process_func
    processing,   \* simulate_mss: the service durations
    raw_starting, \* simulate_mss: the start time of each job so far
    raw_ending,   \* simulate_mss: the end time of each job so far
    rows          \* simulate_mss: the rows of the returned table, index 1 up

vars == <<op, lambda_, lambda_t, t, n, pc, err, t_, s, u, u2, draws, xs,
          intervals, b, c, chi2, df, chi2_crit, H0,
          erv_lambda, processing, raw_starting, raw_ending, rows>>

-----------------------------------------------------------------------------
(* Bounds of the model *)

\* fixed-point resolution: units per 1.0
Scale == 1000
\* the uniform source returns u / UDen for u in 0 .. UDen-1
UDen == 3
\* horizons run from -1 to MaxLoad (whole time units), and a run is started
\* only with lambda_ * T <= MaxLoad, the expected number of its arrivals
MaxLoad == 4
\* a clock that falls below -MaxDepth is not followed further
MaxDepth == 2
\* sample counts n run from -1 to MaxN
MaxN == 2

Draws == 0 .. (UDen - 1)
Rates == {-1, 0, 1, 2}
Horizons == {h * Scale : h \in (-1) .. MaxLoad}
\* the inhomogeneous process is run with a rate bound >= 0 and up to T = 1
IppRates == {r \in Rates : r >= 0}
IppHorizons == {h * Scale : h \in (-1) .. 1}
SampleCounts == (-1) .. MaxN
\* simulate_mss is run up to T = 1, with a service rate > 0
MssHorizons == {h * Scale : h \in (-1) .. 1}
ServiceRates == {1, 2}

-----------------------------------------------------------------------------
(* Python floats *)

Fin(v) == [k |-> "fin", v |-> v]
PosInf == [k |-> "inf", v |-> 0]
NegInf == [k |-> "ninf", v |-> 0]
NaN == [k |-> "nan", v |-> 0]

IsFin(x) == x.k = "fin"

\* x - y
FSub(x, y) ==
    CASE x.k = "nan" \/ y.k = "nan" -> NaN
      [] x.k = "fin" /\ y.k = "fin" -> Fin(x.v - y.v)
      [] x.k = "fin" /\ y.k = "inf" -> NegInf
      [] x.k = "fin" /\ y.k = "ninf" -> PosInf
      [] x.k = "inf" /\ y.k = "inf" -> NaN
      [] x.k = "ninf" /\ y.k = "ninf" -> NaN
      [] OTHER -> x

\* x + y
FAdd(x, y) ==
    FSub(x, CASE y.k = "fin" -> Fin(-y.v)
              [] y.k = "inf" -> NegInf
              [] y.k = "ninf" -> PosInf
              [] OTHER -> NaN)

\* x < y; every comparison with NaN is false
FLt(x, y) ==
    CASE x.k = "nan" \/ y.k = "nan" -> FALSE
      [] x.k = "fin" /\ y.k = "fin" -> x.v < y.v
      [] x.k = "ninf" -> y.k # "ninf"
      [] x.k = "fin" -> y.k = "inf"
      [] OTHER -> FALSE

\* x > y
FGt(x, y) == FLt(y, x)

\* a / d rounded towards zero, d # 0
DivR(a, d) ==
    LET q == (IF a < 0 THEN -a ELSE a) \div (IF d < 0 THEN -d ELSE d)
    IN  IF (a < 0) = (d < 0) THEN q ELSE -q

\* 2 * atanh(z / Scale) * Scale by its power series, pw = the current odd
\* power of z (times Scale), k its exponent
RECURSIVE AtanhSeries(_, _, _)
AtanhSeries(z, pw, k) ==
    IF pw = 0 THEN 0
    ELSE (2 * pw) \div k + AtanhSeries(z, (((pw * z) \div Scale) * z) \div Scale, k + 2)

\* np.log(num / den) for 0 <= num <= den, den > 0
NpLog(num, den) ==
    IF num = 0 THEN NegInf
    ELSE LET z == (Scale * (den - num)) \div (den + num)
         IN  Fin(-AtanhSeries(z, z, 1))

\* 1 / lam * x for a float x and a number lam # 0
InvTimes(lam, x) ==
    CASE x.k = "fin" -> Fin(DivR(x.v, lam))
      [] x.k = "nan" -> NaN
      [] x.k = "inf" -> IF lam > 0 THEN PosInf ELSE NegInf
      [] OTHER -> IF lam > 0 THEN NegInf ELSE PosInf

-----------------------------------------------------------------------------
(* The rate functions handed to InhomogeneousPoissonProcess *)

RateFns == {"zero", "one", "late"}

\* lambda_t(x): the intensity at time x, in units of 1 / Scale
RateAt(f, x) ==
    CASE f = "zero" -> 0
      [] f = "one" -> Scale
      [] OTHER -> IF x.k = "ninf" \/ (x.k = "fin" /\ 2 * x.v < Scale)
                  THEN 0 ELSE Scale

\* u2 <= lambda_t(t_) / lambda_, for u2 = k / UDen, rate r / Scale and lam # 0
UnderRatio(k, r, lam) ==
    IF lam > 0 THEN k * lam * Scale <= r * UDen
               ELSE k * lam * Scale >= r * UDen

-----------------------------------------------------------------------------
(* The clock window: a run with a negative rate moves its clock down for   *)
(* ever; the model follows it while the clock is finite and not below      *)
(* -MaxDepth.                                                              *)

InWindow(x) == IsFin(x) /\ x.v >= -(MaxDepth * Scale)

Zero == Fin(0)

Init ==
    /\ op \in {"hpp", "ipp", "erv", "chi2_test", "simulate_mss"}
    /\ lambda_ \in (IF op = "ipp" THEN IppRates ELSE Rates)
    /\ lambda_t \in (IF op = "ipp" THEN RateFns ELSE {"one"})
    /\ t \in (CASE op = "ipp" -> IppHorizons
                [] op = "simulate_mss" -> MssHorizons
                [] op = "erv" -> {0}
                [] OTHER -> Horizons)
    /\ lambda_ * t <= MaxLoad * Scale
    /\ n \in (IF op = "erv" THEN SampleCounts ELSE {0})
    /\ pc = (IF op = "erv" THEN "erv_loop" ELSE "loop")
    /\ err = ""
    /\ t_ = Zero
    /\ s = << >>
    /\ u = -1
    /\ u2 = -1
    /\ draws = << >>
    /\ xs = << >>
    /\ intervals = << >>
    /\ b = [E |-> << >>, D |-> 1]
    /\ c = << >>
    /\ chi2 = NaN
    /\ df = 0
    /\ chi2_crit = NaN
    /\ H0 = ""
    /\ erv_lambda \in (IF op = "simulate_mss" THEN ServiceRates ELSE {1})
    /\ processing = << >>
    /\ raw_starting = << >>
    /\ raw_ending = << >>
    /\ rows = << >>

\* the variables of chi2_test after the call of generate_series
chiVars == <<intervals, b, c, chi2, df, chi2_crit, H0>>

\* the variables of simulate_mss after the call of generate_series
mssVars == <<erv_lambda, processing, raw_starting, raw_ending, rows>>

\* mutant: the sign of the gap is lost, t_ + 1 / lambda_ * log(u)
NextTimePlus(clock, lam, draw) ==
    FAdd(clock, InvTimes(lam, NpLog(draw, UDen)))

\* t_ - 1 / self.lambda_ * np.log(u)
NextTime(clock, lam, draw) == FSub(clock, InvTimes(lam, NpLog(draw, UDen)))

\* mutant: the time that ended the loop is appended before the return
ReturnSeriesWithLast == Append(s, t_')

\* mutant: the last arrival is lost on the way out
ReturnSeriesDropLast == IF Len(s) = 0 THEN s ELSE SubSeq(s, 1, Len(s) - 1)

\* the series is handed back as it stands (pd.Series(s))
ReturnSeries == s

\* HomogenousPoissonProcess.generate_series: one pass of the while loop
HppIter ==
    /\ op \in {"hpp", "chi2_test", "simulate_mss"}
    /\ pc = "loop"
    /\ InWindow(t_)
    /\ \E draw \in Draws :
        /\ u' = draw
        /\ draws' = Append(draws, draw)
        /\ IF lambda_ = 0
           THEN /\ pc' = "raised"
                /\ err' = "ZeroDivisionError"
                /\ UNCHANGED <<t_, s>>
           ELSE /\ t_' = NextTime(t_, lambda_, draw)
                /\ err' = ""
                /\ IF FGt(t_', Fin(t))
                   THEN /\ pc' = (CASE op = "chi2_test" -> "binning"
                                     [] op = "simulate_mss" -> "mss_processing"
                                     [] OTHER -> "returned")
                        /\ s' = ReturnSeries
                   ELSE /\ pc' = "loop"
                        /\ s' = Append(s, t_')
    /\ UNCHANGED <<op, lambda_, lambda_t, t, n, u2, xs>>
    /\ UNCHANGED mssVars
    /\ UNCHANGED chiVars

\* mutant: the rate is read at the last accepted arrival, not at the candidate
AcceptsAtLastArrival(draw2, cand) ==
    UnderRatio(draw2, RateAt(lambda_t, IF Len(s) = 0 THEN Zero ELSE s[Len(s)]),
               lambda_)

\* the thinning test u2 <= self.lambda_t(t_) / self.lambda_ on candidate cand
Accepts(draw2, cand) == UnderRatio(draw2, RateAt(lambda_t, cand), lambda_)

\* InhomogeneousPoissonProcess.generate_series: one pass of the while loop
IppIter ==
    /\ op = "ipp"
    /\ pc = "loop"
    /\ InWindow(t_)
    /\ \E draw1 \in Draws, draw2 \in Draws :
        /\ u' = draw1
        /\ draws' = Append(draws, draw1)
        /\ IF lambda_ = 0
           THEN /\ pc' = "raised"
                /\ err' = "ZeroDivisionError"
                /\ u2' = -1
                /\ UNCHANGED <<t_, s>>
           ELSE /\ t_' = NextTime(t_, lambda_, draw1)
                /\ err' = ""
                /\ IF FGt(t_', Fin(t))
                   THEN /\ pc' = "returned"
                        /\ u2' = -1
                        /\ s' = ReturnSeries
                   ELSE /\ pc' = "loop"
                        /\ u2' = draw2
                        /\ s' = IF Accepts(draw2, t_')
                                THEN Append(s, t_')
                                ELSE s
    /\ UNCHANGED <<op, lambda_, lambda_t, t, n, xs>>
    /\ UNCHANGED mssVars
    /\ UNCHANGED chiVars

-----------------------------------------------------------------------------
(* ExponentialRandomVariable *)

\* mutant: the u form of the arrival generators, np.log(u), is used
GenerateFromU(lam, draw) == FSub(Zero, InvTimes(lam, NpLog(draw, UDen)))

\* ExponentialRandomVariable.generate: -1 / self.lambda_ * np.log(1 - u)
Generate(lam, draw) == FSub(Zero, InvTimes(lam, NpLog(UDen - draw, UDen)))

\* range(n) has another element after `done` of them
RangeHasNext(count, done) == done < count

\* RandomVariable.generate_series: one self.generate() of the comprehension
ErvGenerate ==
    /\ op = "erv"
    /\ pc = "erv_loop"
    /\ RangeHasNext(n, Len(xs))
    /\ \E draw \in Draws :
        /\ u' = draw
        /\ draws' = Append(draws, draw)
        /\ IF lambda_ = 0
           THEN /\ pc' = "raised"
                /\ err' = "ZeroDivisionError"
                /\ xs' = xs
           ELSE /\ pc' = "erv_loop"
                /\ err' = ""
                /\ xs' = Append(xs, Generate(lambda_, draw))
    /\ UNCHANGED <<op, lambda_, lambda_t, t, n, t_, s, u2>>
    /\ UNCHANGED mssVars
    /\ UNCHANGED chiVars

\* RandomVariable.generate_series: range(n) is used up, the series is returned
ErvReturn ==
    /\ op = "erv"
    /\ pc = "erv_loop"
    /\ ~RangeHasNext(n, Len(xs))
    /\ pc' = "returned"
    /\ UNCHANGED <<op, lambda_, lambda_t, t, n, err, t_, s, u, u2, draws, xs>>
    /\ UNCHANGED mssVars
    /\ UNCHANGED chiVars

-----------------------------------------------------------------------------
(* chi2_test and chi2_exp *)

\* mutant: the gaps are taken from time 0, so that one arrival gives one gap
DiffsFromZero(inc) == [i \in 1 .. Len(inc) |->
                          FSub(inc[i], IF i = 1 THEN Zero ELSE inc[i - 1]).v]

\* inc[1:] - inc[:-1]
Diffs(inc) == [i \in 1 .. (IF Len(inc) = 0 THEN 0 ELSE Len(inc) - 1) |->
                  FSub(inc[i + 1], inc[i]).v]

\* the least / the greatest element of a non-empty array
ArrMin(a) == CHOOSE x \in {a[i] : i \in DOMAIN a} :
                 \A i \in DOMAIN a : x <= a[i]
ArrMax(a) == CHOOSE x \in {a[i] : i \in DOMAIN a} :
                 \A i \in DOMAIN a : x >= a[i]

\* np.floor / np.ceil of a fixed-point value, in whole units
NpFloor(x) == x \div Scale
NpCeil(x) == -((-x) \div Scale)

\* floor(log2(m)) for m >= 1
RECURSIVE Log2Floor(_)
Log2Floor(m) == IF m < 2 THEN 0 ELSE 1 + Log2Floor(m \div 2)

\* int(1 + np.log2(len(intervals)))
NumEdges(m) == 1 + Log2Floor(m)

\* np.linspace(lo, hi, k), k >= 1: edge j is E[j] / D whole units
Linspace(lo, hi, k) ==
    IF k = 1 THEN [E |-> <<lo>>, D |-> 1]
    ELSE [E |-> [j \in 1 .. k |-> lo * (k - 1) + (hi - lo) * (j - 1)],
          D |-> k - 1]

\* how many values lie below edge j (at or below it, for the last edge)
CumCount(a, bins, j) ==
    Cardinality({i \in DOMAIN a :
        IF j = Len(bins.E)
        THEN a[i] * bins.D <= bins.E[j] * Scale
        ELSE a[i] * bins.D < bins.E[j] * Scale})

\* np.histogram(a, bins=bins)[0]: one count per pair of adjacent edges, the
\* last bin closed on the right
Histogram(a, bins) ==
    [j \in 1 .. (Len(bins.E) - 1) |->
        CumCount(a, bins, j + 1) - CumCount(a, bins, j)]

RECURSIVE SumSeq(_)
SumSeq(q) == IF Len(q) = 0 THEN 0 ELSE q[1] + SumSeq(Tail(q))

RECURSIVE FSumSeq(_)
FSumSeq(q) == IF Len(q) = 0 THEN Zero ELSE FAdd(q[1], FSumSeq(Tail(q)))

\* exp(-f / Scale) * Scale for 0 <= f <= Scale, by the power series; term is
\* the current term, k the index of the next one
RECURSIVE ExpSeries(_, _, _)
ExpSeries(f, term, k) ==
    IF term = 0 THEN 0
    ELSE term + ExpSeries(f, DivR(-(term * f), k * Scale), k + 1)

\* exp(-i) * Scale for a natural number i
RECURSIVE ExpInt(_)
ExpInt(i) ==
    IF i = 0 THEN Scale
    ELSE IF i > 20 THEN 0
    ELSE (ExpInt(i - 1) * ExpSeries(Scale, Scale, 1)) \div Scale

\* np.exp(-num / den) * Scale for num >= 0, den > 0
NpExpNeg(num, den) ==
    LET y == (num * Scale) \div den
    IN  (ExpInt(y \div Scale) * ExpSeries(y % Scale, Scale, 1)) \div Scale

\* twice the sum of values * counts, times bins.D
MidSum(bins, counts) ==
    SumSeq([j \in DOMAIN counts |-> (bins.E[j] + bins.E[j + 1]) * counts[j]])

\* exp_prob(lambda_s, bins[j], bins[j+1]) * Scale with lambda_s = 1 / x_b,
\* x_b = MidSum / (2 * bins.D * n)
ExpProb(bins, counts, j) ==
    LET m == SumSeq(counts)
        ms == MidSum(bins, counts)
    IN  NpExpNeg(2 * m * bins.E[j], ms) - NpExpNeg(2 * m * bins.E[j + 1], ms)

\* row j of the table: K = (n_i - n'_i)^2 / n'_i
ChiTerm(bins, counts, j) ==
    LET m == SumSeq(counts)
        ms == MidSum(bins, counts)
        ni == ExpProb(bins, counts, j) * m
        delta == counts[j] * Scale - ni
    IN  IF m = 0 \/ ms <= 0 THEN NaN
        ELSE IF ni = 0 THEN (IF delta = 0 THEN NaN ELSE PosInf)
        ELSE Fin((delta * delta) \div ni)

\* float(np.sum(k)) of chi2_exp
ChiStat(bins, counts) ==
    FSumSeq([j \in DOMAIN counts |-> ChiTerm(bins, counts, j)])

\* df = len(values) - 2
DegreesOfFreedom(counts) == Len(counts) - 2

\* the upper 5% points of the chi-square distribution, times 1000
Isf05 == <<3841, 5991, 7815, 9488, 11070, 12592>>

\* scipy.stats.chi2.isf(alpha, df): NaN for df < 1; otherwise the value for
\* alpha = 0.05 or, alpha being any level, the statistic itself
IsfValues(d, stat) ==
    IF d < 1 THEN {NaN}
    ELSE {Fin((Isf05[IF d > 6 THEN 6 ELSE d] * Scale) \div 1000)}
         \cup (IF IsFin(stat) /\ stat.v > 0 THEN {stat} ELSE {})

\* mutant: the comparison is not strict
DecisionNotStrict(stat, crit) ==
    IF FLt(stat, crit) \/ stat = crit THEN "accept" ELSE "reject"

\* "принимаем" if chi2 < chi2_crit else "отвергаем"
Decision(stat, crit) == IF FLt(stat, crit) THEN "accept" ELSE "reject"

\* chi2_test after generate_series: the gaps, the edges and the histogram
Chi2Binning ==
    /\ op = "chi2_test"
    /\ pc = "binning"
    /\ intervals' = Diffs(s)
    /\ IF Len(intervals') = 0
       THEN /\ pc' = "raised"
            /\ err' = "ValueError"
            /\ UNCHANGED <<b, c>>
       ELSE /\ pc' = "chi2_exp"
            /\ err' = ""
            /\ b' = Linspace(NpFloor(ArrMin(intervals')),
                             NpCeil(ArrMax(intervals')),
                             NumEdges(Len(intervals')))
            /\ c' = Histogram(intervals', b')
    /\ UNCHANGED <<op, lambda_, lambda_t, t, n, t_, s, u, u2, draws, xs>>
    /\ UNCHANGED mssVars
    /\ UNCHANGED <<chi2, df, chi2_crit, H0>>

\* chi2_exp(b.copy(), c.copy()); np.vectorize refuses size 0 inputs
Chi2Exp ==
    /\ op = "chi2_test"
    /\ pc = "chi2_exp"
    /\ IF Len(c) = 0
       THEN /\ pc' = "raised"
            /\ err' = "ValueError"
            /\ UNCHANGED <<chi2, df>>
       ELSE /\ pc' = "decide"
            /\ err' = ""
            /\ chi2' = ChiStat(b, c)
            /\ df' = DegreesOfFreedom(c)
    /\ UNCHANGED <<op, lambda_, lambda_t, t, n, t_, s, u, u2, draws, xs>>
    /\ UNCHANGED mssVars
    /\ UNCHANGED <<intervals, b, c, chi2_crit, H0>>

\* the critical value and the decision
Chi2Decide ==
    /\ op = "chi2_test"
    /\ pc = "decide"
    /\ \E crit \in IsfValues(df, chi2) :
        /\ chi2_crit' = crit
        /\ H0' = Decision(chi2, crit)
    /\ pc' = "done"
    /\ UNCHANGED <<op, lambda_, lambda_t, t, n, err, t_, s, u, u2, draws, xs>>
    /\ UNCHANGED mssVars
    /\ UNCHANGED <<intervals, b, c, chi2, df>>

-----------------------------------------------------------------------------
(* simulate_mss; Python's index i of a list is i + 1 here *)

\* x >= y; every comparison with NaN is false
FGe(x, y) == x.k # "nan" /\ y.k # "nan" /\ ~FLt(x, y)

\* mutant: the earlier of the arrival and the previous end is taken
StartOfEarlier(arrival, prevEnd) ==
    IF FLt(arrival, prevEnd) THEN arrival ELSE prevEnd

\* the start of a job that arrives at `arrival` when the job before it ends
\* at prevEnd: the branches of if incoming[i] >= raw_ending[i-1]
StartOf(arrival, prevEnd) ==
    IF FGe(arrival, prevEnd) THEN arrival ELSE prevEnd

\* process_func.generate_series(len(incoming)): one self.generate()
MssProcessing ==
    /\ op = "simulate_mss"
    /\ pc = "mss_processing"
    /\ RangeHasNext(Len(s), Len(processing))
    /\ \E draw \in Draws :
        /\ u' = draw
        /\ IF erv_lambda = 0
           THEN /\ pc' = "raised"
                /\ err' = "ZeroDivisionError"
                /\ processing' = processing
           ELSE /\ pc' = "mss_processing"
                /\ err' = ""
                /\ processing' = Append(processing, Generate(erv_lambda, draw))
    /\ UNCHANGED <<op, lambda_, lambda_t, t, n, t_, s, u2, draws, xs>>
    /\ UNCHANGED chiVars
    /\ UNCHANGED <<erv_lambda, raw_starting, raw_ending, rows>>

\* raw_ending = [incoming[0] + processing[0]]; raw_starting = [incoming[0]]:
\* label 0 is not in the index of an empty series
MssFirst ==
    /\ op = "simulate_mss"
    /\ pc = "mss_processing"
    /\ ~RangeHasNext(Len(s), Len(processing))
    /\ IF Len(s) = 0
       THEN /\ pc' = "raised"
            /\ err' = "KeyError"
            /\ UNCHANGED <<raw_starting, raw_ending>>
       ELSE /\ pc' = "mss_loop"
            /\ err' = ""
            /\ raw_ending' = <<FAdd(s[1], processing[1])>>
            /\ raw_starting' = <<s[1]>>
    /\ UNCHANGED <<op, lambda_, lambda_t, t, n, t_, s, u, u2, draws, xs>>
    /\ UNCHANGED chiVars
    /\ UNCHANGED <<erv_lambda, processing, rows>>

\* one pass of for i in range(1, len(incoming))
MssIter ==
    /\ op = "simulate_mss"
    /\ pc = "mss_loop"
    /\ RangeHasNext(Len(s), Len(raw_ending))
    /\ LET i == Len(raw_ending) + 1
           start == StartOf(s[i], raw_ending[i - 1])
       IN  /\ raw_ending' = Append(raw_ending, FAdd(start, processing[i]))
           /\ raw_starting' = Append(raw_starting, start)
    /\ UNCHANGED <<op, lambda_, lambda_t, t, n, pc, err, t_, s, u, u2, draws, xs>>
    /\ UNCHANGED chiVars
    /\ UNCHANGED <<erv_lambda, processing, rows>>

\* the table: one row per element of incoming, the index moved to 1 ..
MssTable ==
    [i \in 1 .. Len(s) |->
        [incoming |-> s[i], starting |-> raw_starting[i],
         processing |-> processing[i], ending |-> raw_ending[i]]]

\* df = pd.DataFrame({...}); df.index += 1; return df
MssReturn ==
    /\ op = "simulate_mss"
    /\ pc = "mss_loop"
    /\ ~RangeHasNext(Len(s), Len(raw_ending))
    /\ rows' = MssTable
    /\ pc' = "returned"
    /\ UNCHANGED <<op, lambda_, lambda_t, t, n, err, t_, s, u, u2, draws, xs>>
    /\ UNCHANGED chiVars
    /\ UNCHANGED <<erv_lambda, processing, raw_starting, raw_ending>>

Next ==
    \/ HppIter
    \/ IppIter
    \/ ErvGenerate
    \/ ErvReturn
    \/ Chi2Binning
    \/ Chi2Exp
    \/ Chi2Decide
    \/ MssProcessing
    \/ MssFirst
    \/ MssIter
    \/ MssReturn

Spec == Init /\ [][Next]_vars

-----------------------------------------------------------------------------
(* Claims *)

\* the series as numbers: every element finite
AllFinite(q) == \A i \in DOMAIN q : IsFin(q[i])

\* C1: for a rate > 0 the series of either generator is strictly increasing
\* and every element is <= T, while it is built and when it is returned; at
\* the return the clock holds the time that exceeded T, which is not in the
\* series.
C1_Ordering ==
    (op \in {"hpp", "ipp"} /\ lambda_ > 0) =>
        /\ AllFinite(s)
        /\ \A i \in DOMAIN s : s[i].v <= t
        /\ \A i \in DOMAIN s : i < Len(s) => s[i].v < s[i + 1].v
        /\ pc = "returned" =>
              /\ t_.k = "inf" \/ (t_.k = "fin" /\ t_.v > t)
              /\ \A i \in DOMAIN s : s[i] # t_

\* C1 witness: the inhomogeneous generator has returned two or more arrivals
\* after rejecting a candidate
C1_Witness ==
    /\ op = "ipp" /\ lambda_ > 0 /\ pc = "returned"
    /\ Len(s) >= 2
    /\ Len(draws) > Len(s) + 1

\* the gap -1 / lambda_ * np.log(u) of a draw
GapOf(draw) == FSub(Zero, InvTimes(lambda_, NpLog(draw, UDen)))

\* the sum of the gaps of the first i draws
RECURSIVE RunSum(_)
RunSum(i) == IF i = 0 THEN Zero ELSE FAdd(RunSum(i - 1), GapOf(draws[i]))

\* C2: in a pass of the inhomogeneous loop (rate bound > 0) the candidate is
\* the clock plus the gap of u1, whether or not the previous candidate was
\* accepted; a candidate <= T is appended iff u2 <= lambda_t(candidate) /
\* lambda_, and the series is otherwise left as it is.
C2_Thinning ==
    [][(op = "ipp" /\ lambda_ > 0 /\ pc = "loop" /\ draws' # draws) =>
          /\ t_' = FAdd(t_, GapOf(u'))
          /\ ~FGt(t_', Fin(t)) =>
                /\ pc' = "loop"
                /\ IF u2' * lambda_ * Scale <= RateAt(lambda_t, t_') * UDen
                   THEN s' = Append(s, t_')
                   ELSE s' = s
          /\ FGt(t_', Fin(t)) => s' = s]_vars

\* C2 witness: with the rate that is 0 before 1/2 and 1 after, the first
\* candidate was rejected and the second, drawn from it, accepted with u2 > 0
C2_Witness ==
    /\ op = "ipp" /\ lambda_ > 0 /\ lambda_t = "late" /\ pc = "loop"
    /\ Len(draws) = 2
    /\ s = <<t_>>
    /\ t_ = RunSum(2)
    /\ u2 > 0

\* C3: the homogeneous loop starts at 0 and has appended every generated
\* time so far; when it returns, the series is the running sums of the gaps
\* of all draws but the last, each <= T, and the sum with the last gap is
\* the first that exceeds T.
C3_LongestPrefix ==
    (op = "hpp" /\ pc \in {"loop", "returned"}) =>
        /\ Len(draws) = 0 => t_ = Zero /\ s = << >>
        /\ \A i \in DOMAIN s : s[i] = RunSum(i) /\ ~FGt(s[i], Fin(t))
        /\ pc = "loop" => Len(s) = Len(draws)
        /\ pc = "returned" =>
              /\ Len(draws) = Len(s) + 1
              /\ FGt(RunSum(Len(draws)), Fin(t))

\* C3 witness: the homogeneous generator has returned two or more arrivals
C3_Witness == op = "hpp" /\ pc = "returned" /\ Len(s) >= 2

\* C4 as claimed: with a rate <= 0 the homogeneous generator fails at once:
\* it appends nothing and returns no series.
C4_Claim ==
    (op = "hpp" /\ lambda_ <= 0) => (pc # "returned" /\ Len(s) = 0)

\* C5 as claimed: chi2_exp hands no statistic to the decision, and no
\* decision is taken, with degrees of freedom below 1 (fewer than 3 bins).
C5_Claim ==
    (op = "chi2_test" /\ pc \in {"decide", "done"}) =>
        (Len(c) >= 3 /\ df >= 1)

\* C6: chi2_test on a series of fewer than 2 arrivals fails, and has then
\* produced no bin edge, no count, no statistic and no decision.
C6_TooFewArrivals ==
    (op = "chi2_test" /\ pc \notin {"loop", "binning"} /\ Len(s) < 2) =>
        /\ pc = "raised"
        /\ err # ""
        /\ b.E = << >> /\ c = << >>
        /\ chi2 = NaN /\ chi2_crit = NaN /\ H0 = ""

\* C6 witness: a series of one arrival, and chi2_test has failed on its gaps
C6_Witness ==
    /\ op = "chi2_test" /\ pc = "raised" /\ err = "ValueError"
    /\ Len(s) = 1 /\ intervals = << >>

\* C7 as claimed: once the gaps are binned, the counts sum to the number of
\* gaps.
C7_Claim ==
    (op = "chi2_test" /\ pc \in {"chi2_exp", "decide", "done"}) =>
        SumSeq(c) = Len(intervals)

\* C8: the decision is accept iff the statistic and the critical value are
\* numbers and the statistic is below the critical value; otherwise, and so
\* when the two are equal, it is reject.
C8_Decision ==
    (op = "chi2_test" /\ pc = "done") =>
        /\ H0 \in {"accept", "reject"}
        /\ H0 = "accept" <=>
              (IsFin(chi2) /\ IsFin(chi2_crit) /\ chi2.v < chi2_crit.v)

\* C8 witness: the statistic equals the critical value and the decision is
\* reject
C8_Witness ==
    /\ op = "chi2_test" /\ pc = "done"
    /\ IsFin(chi2) /\ chi2 = chi2_crit
    /\ H0 = "reject"

\* C9 as claimed: with a rate > 0 every sample is > 0.
C9_Claim ==
    (op = "erv" /\ lambda_ > 0) =>
        \A i \in DOMAIN xs : IsFin(xs[i]) /\ xs[i].v > 0

\* C9 amended: with a rate > 0 every sample is a number >= 0, and it is > 0
\* exactly when its draw u is > 0: the draw u = 0 gives the sample 0.
C9_NonNegative ==
    (op = "erv" /\ lambda_ > 0) =>
        /\ Len(draws) = Len(xs)
        /\ \A i \in DOMAIN xs :
              /\ IsFin(xs[i]) /\ xs[i].v >= 0
              /\ xs[i].v > 0 <=> draws[i] > 0

\* C9 witness: a returned series holds a sample 0 drawn with u = 0 and a
\* sample > 0
C9_Witness ==
    /\ op = "erv" /\ lambda_ > 0 /\ pc = "returned"
    /\ \E i \in DOMAIN xs : xs[i] = Zero /\ draws[i] = 0
    /\ \E i \in DOMAIN xs : xs[i].v > 0

\* C10 as claimed: generate_series(n) returns no series when the rate is
\* <= 0 or n < 0.
C10_Claim ==
    (op = "erv" /\ (lambda_ <= 0 \/ n < 0)) => pc # "returned"

\* the later of two times
LaterOf(x, y) == IF x >= y THEN x ELSE y

\* C11: in simulate_mss the first job starts at its arrival, every later job
\* starts at the later of its arrival and the end of the job before it, and
\* every job ends at its start plus its service duration; the returned table
\* holds these values, one row per arrival, in arrival order
C11_SingleServer ==
    (op = "simulate_mss" /\ pc \in {"mss_loop", "returned"}) =>
        /\ Len(s) >= 1
        /\ Len(raw_starting) = Len(raw_ending)
        /\ Len(raw_starting) >= 1
        /\ Len(raw_starting) <= Len(s)
        /\ \A i \in 1 .. Len(raw_starting) :
            /\ IsFin(raw_starting[i])
            /\ IsFin(raw_ending[i])
            /\ raw_starting[i].v =
                   (IF i = 1 THEN s[1].v
                    ELSE LaterOf(s[i].v, raw_ending[i - 1].v))
            /\ raw_ending[i].v = raw_starting[i].v + processing[i].v
        /\ pc = "returned" =>
            /\ Len(raw_starting) = Len(s)
            /\ Len(rows) = Len(s)
            /\ \A i \in 1 .. Len(s) :
                /\ rows[i].incoming = s[i]
                /\ rows[i].starting = raw_starting[i]
                /\ rows[i].processing = processing[i]
                /\ rows[i].ending = raw_ending[i]

\* a returned table in which the second job waited for the first to end
C11_Witness ==
    /\ op = "simulate_mss"
    /\ pc = "returned"
    /\ Len(rows) >= 2
    /\ rows[2].starting.v > rows[2].incoming.v
    /\ rows[2].starting = rows[1].ending

\* C12: for a horizon T <= 0 and a rate > 0 both generators return the empty
\* series whatever the rate function and the draws are: the first candidate
\* time is already past T, so nothing is appended and the loop ends there
C12_EmptyUpToZero ==
    (op \in {"hpp", "ipp"} /\ lambda_ > 0 /\ t <= 0) =>
        /\ s = << >>
        /\ pc \in {"loop", "returned"}
        /\ pc = "loop" => t_ = Zero
        /\ pc = "returned" => FGt(t_, Fin(t))

\* the thinning generator has returned for T = 0 after a finite first
\* candidate
C12_Witness ==
    /\ op = "ipp"
    /\ lambda_ > 0
    /\ t = 0
    /\ pc = "returned"
    /\ IsFin(t_)
    /\ s = << >>

\* C13: simulate_mss returns a table with exactly one row per arrival for
\* every series the arrival generator returns, the empty series included:
\* then the table has no rows and the call does not fail
C13_Claim ==
    (op = "simulate_mss" /\ lambda_ > 0 /\ pc \notin {"loop", "mss_processing"}) =>
        /\ pc # "raised"
        /\ pc = "returned" => Len(rows) = Len(s)

\* C14: the inhomogeneous loop (rate bound > 0) goes on while the candidate
\* is <= T and ends at the first candidate past T, accepted candidates or
\* none; with the rate function that is 0 everywhere every candidate is
\* rejected, so the series stays empty up to and at the return
C14_Claim ==
    (op = "ipp" /\ lambda_ > 0) =>
        /\ pc \in {"loop", "returned"}
        /\ (pc = "loop" /\ draws # << >>) => ~FGt(t_, Fin(t))
        /\ pc = "returned" => FGt(t_, Fin(t))
        /\ lambda_t = "zero" => s = << >>

=============================================================================
